---- MODULE Spec2Model ----
(***************************************************************************)
(* A model of the Save/Solend action builder (SolendActionCore,            *)
(* solend-sdk/src/core/actions.ts) and of the liquidator loop              *)
(* (runLiquidator).                                                        *)
(*                                                                         *)
(* Three specifications share the variables:                               *)
(*   Spec      the ten static build*Txns entry points, each running        *)
(*             initialize, addSupportIxs and one add*Ix;                   *)
(*   SpecUnit  initialize followed by direct calls of the instance         *)
(*             methods, as a unit test of the class makes them;            *)
(*   SpecLiq   the epoch / market / obligation loop of runLiquidator.      *)
(*                                                                         *)
(* Numbers the program takes from modules outside the sources at hand      *)
(* (POSITION_LIMIT, U64_MAX, WAD from core/constants, bignumber.js's       *)
(* DECIMAL_PLACES, the double's precision) are scaled down together so     *)
(* that every product fits a 32-bit integer.                               *)
(***************************************************************************)
EXTENDS Integers, Sequences, FiniteSets, TLC

\* ------------------------------------------------------------ bounds
\* core/constants POSITION_LIMIT (10 in the SDK), scaled.
POSITION_LIMIT == 2
\* core/constants U64_MAX, the amount sentinel, scaled.
U64_MAX == 7
\* core/constants WAD (10^18), scaled to one decimal digit.
WAD == 10
\* bignumber.js DECIMAL_PLACES (20 = WAD digits + 2), scaled: 10^-2 units.
BigNumberScale == 100
\* doubles near SOL_PADDING_FOR_INTEREST are the multiples of 2^-33; scaled,
\* the representable numbers are the multiples of 1/FloatUlpInverse.
FloatUlpInverse == 4
\* getMinimumBalanceForRentExemptAccount's answer, scaled.
RentExempt == 3
\* SpecUnit: how many methods are called on one instance.
MaxCalls == 2
\* SpecLiq: the epochs run and the obligations of a market.
MaxEpochs == 2
MaxObligations == 2
\* SpecOracle: the reserves of a market.
MaxReserves == 2

SOL_PADDING_FOR_INTEREST == 1000000
\* The age in seconds above which buildPullPriceTxns asks for a price update.
StalenessSeconds == 30

\* Reserves of the pool; one more than the limit, so that a full obligation
\* can still meet a reserve it does not hold.
Reserves == 1 .. (POSITION_LIMIT + 1)
\* The reserve whose liquidity mint is NATIVE_MINT.
NativeReserves == {1}
Amounts == {1, 2, U64_MAX}

ActionTypes ==
  {"deposit", "borrow", "withdraw", "repay", "mint", "redeem",
   "depositCollateral", "withdrawCollateral", "forgive", "liquidate"}

ACTION_SUPPORT_REQUIREMENTS ==
  [deposit            |-> <<"wsol", "wrap", "createObligation", "cAta">>,
   borrow             |-> <<"wsol", "ata", "refreshReserves", "refreshObligation", "unwrap">>,
   withdraw           |-> <<"wsol", "ata", "cAta", "refreshReserves", "refreshObligation", "unwrap">>,
   repay              |-> <<"wsol", "wrap">>,
   mint               |-> <<"wsol", "wrap", "cAta">>,
   redeem             |-> <<"wsol", "ata", "refreshReserves", "refreshObligation", "unwrap">>,
   depositCollateral  |-> <<"createObligation">>,
   withdrawCollateral |-> <<"cAta", "refreshReserves", "refreshObligation">>,
   forgive            |-> <<>>,
   liquidate          |-> <<"wsol", "ata", "cAta", "wrapUnwrapLiquidate",
                            "refreshReserves", "refreshObligation">>]

\* ------------------------------------------------------------ helpers
RECURSIVE SetToSeq(_)
\* The elements of a set of integers in increasing order.
SetToSeq(S) ==
  IF S = {} THEN <<>>
  ELSE LET m == CHOOSE x \in S : \A y \in S : x <= y
       IN <<m>> \o SetToSeq(S \ {m})

Range(s) == {s[i] : i \in 1 .. Len(s)}

\* Array.from(new Set(xs)).length
DistinctCount(xs) == Cardinality(Range(xs))

\* ------------------------------------------------------------ instructions
\* An instruction as the builder sees it: its kind, the user-side accounts it
\* references, the account it creates (if any), its amount (-1: none) and the
\* deposit (or plain) and borrow reserves it lists.
Ix(kind, refs, creates, amt, rs, bs) ==
  [ix |-> kind, refs |-> refs, creates |-> creates, amount |-> amt,
   reserves |-> rs, borrows |-> bs]

NoAmount == 0 - 1

BucketNames == {"setupIxs", "preIxs", "lendingIxs", "postIxs", "cleanupIxs"}

\* The bucket properties the constructor assigns: this.preIxs = [],
\* this.postIxs = [], this.lendingIxs = [].  setupIxs, cleanupIxs, postTxnIxs
\* and pullPriceTxns are never assigned: they read as undefined.
ConstructorBuckets == {"preIxs", "postIxs", "lendingIxs"}

\* this.<b>.push(...ixs): a TypeError when this.<b> is undefined, also when
\* nothing is spread into the call.  A plan that has already thrown is left
\* as it is (the rest of the method does not run).
Push(a, b, ixs) ==
  IF a.err # "none" THEN a
  ELSE IF b \in DOMAIN a.buckets
       THEN [a EXCEPT !.buckets[b] = @ \o ixs]
       ELSE [a EXCEPT !.err = "TypeError"]

Throw(a, e) == IF a.err # "none" THEN a ELSE [a EXCEPT !.err = e]

\* ------------------------------------------------------------ chain state
\* What the RPC connection answers during one call.  An obligation account
\* holds each reserve at most once among its deposits and once among its
\* borrows, and the lending program admits at most POSITION_LIMIT entries in
\* the two lists together.
ObligationStates ==
  {[exists |-> FALSE, deposits |-> <<>>, borrows |-> <<>>]} \cup
  {[exists |-> TRUE, deposits |-> SetToSeq(D), borrows |-> SetToSeq(B)] :
     <<D, B>> \in {db \in (SUBSET Reserves) \X (SUBSET Reserves) :
                     Cardinality(db[1]) + Cardinality(db[2]) <= POSITION_LIMIT}}

\* borrowedAmountWads of the obligation's borrow, its snapshot
\* cumulativeBorrowRateWads, and the reserve's current rate.
BorrowedWads == {WAD, 2 * WAD - 1}
SnapshotRates == {WAD}
CurrentRates == {WAD, WAD + 1}
ReserveReads == {"ok", "missing", "unparsable"}
LookupTables == {"none", "found", "notFound"}
\* Date.now() / 1000 - publishTime of a price update account, in seconds.
PublishAges == {0, StalenessSeconds, StalenessSeconds + 1}
\* What getMultipleAccountsInfo answers for a reserve's pythOracle key: no
\* account, or a price update account of the Pyth receiver with its age.
PythOracles ==
  {[found |-> FALSE, publishAge |-> 0]} \cup
  {[found |-> TRUE, publishAge |-> g] : g \in PublishAges}
NoOracleRead == [found |-> TRUE, publishAge |-> 0]

NoChain ==
  [obligation |-> [exists |-> FALSE, deposits |-> <<>>, borrows |-> <<>>],
   userTokenAccountInfo |-> FALSE, userCollateralAccountInfo |-> FALSE,
   borrowedAmountWads |-> WAD, snapshotRate |-> WAD,
   reserveRead |-> "ok", reserveRate |-> WAD,
   sbPulled |-> FALSE, pythOracle |-> NoOracleRead]

\* ------------------------------------------------------------ the plan object
\* The instance before any call: no object.  Besides the object's fields the
\* record carries err, the error the running method has thrown, the locals
\* safeRepay and lamports of the last updateWSOLAccount that computed them,
\* and the length of shuffledPriceIds in the last buildPullPriceTxns.
NoAxn ==
  [constructed |-> FALSE, reserve |-> 1, amount |-> 0, positions |-> 0,
   hostAta |-> FALSE, obligationAccountInfo |-> FALSE,
   depositReserves |-> <<>>, borrowReserves |-> <<>>,
   lookupTableAccount |-> FALSE, userRepayTokenAccountAddress |-> FALSE,
   wrappedAta |-> FALSE,
   buckets |-> [b \in ConstructorBuckets |-> <<>>], err |-> "none",
   safeRepay |-> NoAmount, lamports |-> NoAmount,
   shuffledPriceIds |-> NoAmount]

\* The private constructor: copies its arguments and sets preIxs, postIxs and
\* lendingIxs to [].
Constructor(reserve, amount, positions, ob, hostAta, lut, repay, wrapped) ==
  [constructed |-> TRUE, reserve |-> reserve, amount |-> amount,
   positions |-> positions, hostAta |-> hostAta,
   obligationAccountInfo |-> ob.exists,
   depositReserves |-> ob.deposits, borrowReserves |-> ob.borrows,
   lookupTableAccount |-> lut, userRepayTokenAccountAddress |-> repay,
   wrappedAta |-> wrapped,
   buckets |-> [b \in ConstructorBuckets |-> <<>>], err |-> "none",
   safeRepay |-> NoAmount, lamports |-> NoAmount,
   shuffledPriceIds |-> NoAmount]

\* A faulty distinctReserveCount that leaves the action's target reserve out of
\* both sets; C1's formula tells it from the one below.
distinctReserveCountWithoutTarget(ob, reserve, action) ==
  DistinctCount(ob.borrows) + DistinctCount(ob.deposits)

\* initialize's "Union of addresses": the distinct borrow reserves (with the
\* target when the action is borrow) plus the distinct deposit reserves (with the
\* target when the action is deposit).
distinctReserveCount(ob, reserve, action) ==
  DistinctCount(ob.borrows \o (IF action = "borrow" THEN <<reserve>> ELSE <<>>))
  + DistinctCount(ob.deposits \o (IF action = "deposit" THEN <<reserve>> ELSE <<>>))

\* static initialize: reads the obligation, checks the position limit, and
\* constructs the object.  lut is the lookupTableAddress argument as the chain
\* answers it; repay: a repayReserve was passed; token2022: a token2022Mint was.
Initialize(ob, reserve, action, amount, hostAta, lut, repay, token2022) ==
  IF distinctReserveCount(ob, reserve, action) > POSITION_LIMIT
  THEN [NoAxn EXCEPT !.err = "PositionLimit"]
  ELSE Constructor(reserve, amount, distinctReserveCount(ob, reserve, action),
                   ob, hostAta, lut = "found", repay, token2022)

\* ------------------------------------------------------------ lending instructions
\* A faulty IsMax that compares the BN object itself with the U64_MAX string,
\* which is never equal; C5's formula tells it from the one below.
IsMaxComparingObject(amount) == FALSE

\* amount.toString() === U64_MAX (addDepositIx, addRepayIx) and
\* amount.eq(new BN(U64_MAX)) (addWithdrawIx) on a BN.
IsMax(amount) == amount = U64_MAX

\* A faulty addForgiveIx that treats U64_MAX as "forgive everything" and drops
\* the amount; C28's formula tells it from the one below.
addForgiveIxBranching(a) ==
  Push(a, "lendingIxs",
       <<Ix("forgiveDebt", {"obligation"}, "none",
            IF IsMax(a.amount) THEN NoAmount ELSE a.amount, <<a.reserve>>, <<>>)>>)

addForgiveIx(a) ==
  Push(a, "lendingIxs",
       <<Ix("forgiveDebt", {"obligation"}, "none", a.amount, <<a.reserve>>, <<>>)>>)

addDepositIx(a) ==
  Push(a, "lendingIxs",
       <<IF IsMax(a.amount)
         THEN Ix("depositMaxReserveLiquidityAndObligationCollateral",
                 {"userTokenAccount", "userCollateralAccount", "obligation"},
                 "none", NoAmount, <<a.reserve>>, <<>>)
         ELSE Ix("depositReserveLiquidityAndObligationCollateral",
                 {"userTokenAccount", "userCollateralAccount", "obligation"},
                 "none", a.amount, <<a.reserve>>, <<>>)>>)

addDepositReserveLiquidityIx(a) ==
  Push(a, "lendingIxs",
       <<Ix("depositReserveLiquidity", {"userTokenAccount", "userCollateralAccount"},
            "none", a.amount, <<a.reserve>>, <<>>)>>)

addRedeemReserveCollateralIx(a) ==
  Push(a, "lendingIxs",
       <<Ix("redeemReserveCollateral", {"userTokenAccount", "userCollateralAccount"},
            "none", a.amount, <<a.reserve>>, <<>>)>>)

addWithdrawObligationCollateralIx(a) ==
  Push(a, "lendingIxs",
       <<Ix("withdrawObligationCollateral", {"userCollateralAccount", "obligation"},
            "none", a.amount, a.depositReserves, <<>>)>>)

addDepositObligationCollateralIx(a) ==
  Push(a, "lendingIxs",
       <<Ix("depositObligationCollateral", {"userCollateralAccount", "obligation"},
            "none", a.amount, <<a.reserve>>, <<>>)>>)

addBorrowIx(a) ==
  Push(a, "lendingIxs",
       <<Ix("borrowObligationLiquidity", {"userTokenAccount", "obligation"},
            "none", a.amount, a.depositReserves, <<>>)>>)

addWithdrawIx(a) ==
  Push(a, "lendingIxs",
       <<IF IsMax(a.amount)
         THEN Ix("withdrawObligationCollateralAndRedeemReserveLiquidity",
                 {"userTokenAccount", "userCollateralAccount", "obligation"},
                 "none", U64_MAX, a.depositReserves, <<>>)
         ELSE Ix("withdrawExact",
                 {"userTokenAccount", "userCollateralAccount", "obligation"},
                 "none", a.amount, a.depositReserves, <<>>)>>)

addRepayIx(a) ==
  Push(a, "lendingIxs",
       <<IF IsMax(a.amount)
         THEN Ix("repayMaxObligationLiquidity", {"userTokenAccount", "obligation"},
                 "none", NoAmount, <<a.reserve>>, <<>>)
         ELSE Ix("repayObligationLiquidity", {"userTokenAccount", "obligation"},
                 "none", a.amount, <<a.reserve>>, <<>>)>>)

addLiquidateIx(a) ==
  IF ~a.userRepayTokenAccountAddress
  THEN Throw(a, "NotInitializedWithRepayReserve")
  ELSE Push(a, "lendingIxs",
            <<Ix("liquidateObligationAndRedeemReserveCollateral",
                 {"userRepayTokenAccount", "userTokenAccount",
                  "userCollateralAccount", "obligation"},
                 "none", a.amount, <<a.reserve>>, <<>>)>>)

\* ------------------------------------------------------------ arithmetic
\* BigNumber.dividedBy: the quotient rounded half up (ROUNDING_MODE 4) at
\* DECIMAL_PLACES; n and the result count units of 1/BigNumberScale.
DivHalfUp(n, d) == (2 * n + d) \div (2 * d)

\* BigNumber.toNumber: the nearest double, ties to even, as a count of units
\* of 1/FloatUlpInverse; n counts units of 1/BigNumberScale.
ToNumber(n) ==
  LET num == n * FloatUlpInverse
      q == num \div BigNumberScale
      r == num % BigNumberScale
  IN IF 2 * r < BigNumberScale THEN q
     ELSE IF 2 * r > BigNumberScale THEN q + 1
     ELSE IF q % 2 = 0 THEN q ELSE q + 1

\* Math.floor of a double given in units of 1/FloatUlpInverse.
MathFloor(m) == m \div FloatUlpInverse

\* The safeRepay expression of updateWSOLAccount:
\* Math.floor(BigNumber(B).multipliedBy(r1).dividedBy(r0).dividedBy(WAD)
\*            .plus(SOL_PADDING_FOR_INTEREST).toNumber())
SafeRepayOf(B, r0, r1) ==
  LET product == B * r1 * BigNumberScale
      byRate == DivHalfUp(product, r0)
      byWad == DivHalfUp(byRate, WAD)
      padded == byWad + SOL_PADDING_FOR_INTEREST * BigNumberScale
  IN MathFloor(ToNumber(padded))

\* ------------------------------------------------------------ support resolution
RECURSIVE Dedup(_)
\* Array.from(new Set(xs)): the first occurrence of each element, in order.
Dedup(xs) ==
  IF xs = <<>> THEN <<>>
  ELSE LET front == Dedup(SubSeq(xs, 1, Len(xs) - 1))
           x == xs[Len(xs)]
       IN IF x \in Range(front) THEN front ELSE Append(front, x)

\* positions === POSITION_LIMIT && hostAta && !lookupTableAccount
PreBucketException(a) ==
  a.positions = POSITION_LIMIT /\ a.hostAta /\ ~a.lookupTableAccount

addObligationIxs(a) ==
  IF ~a.obligationAccountInfo
  THEN Push(Push(a, "setupIxs",
                 <<Ix("createAccountWithSeed", {"obligation"}, "obligation",
                      NoAmount, <<>>, <<>>)>>),
            "setupIxs",
            <<Ix("initObligation", {"obligation"}, "none", NoAmount, <<>>, <<>>)>>)
  ELSE a

addAtaIxs(a, ch) ==
  IF a.reserve \notin NativeReserves /\ ~ch.userTokenAccountInfo
  THEN Push(a, IF PreBucketException(a) THEN "preIxs" ELSE "setupIxs",
            <<Ix("createAssociatedTokenAccount", {"userTokenAccount"},
                 "userTokenAccount", NoAmount, <<>>, <<>>)>>)
  ELSE a

addCAtaIxs(a, ch) ==
  IF ~ch.userCollateralAccountInfo
  THEN Push(a, IF PreBucketException(a) THEN "preIxs" ELSE "setupIxs",
            <<Ix("createAssociatedTokenAccount", {"userCollateralAccount"},
                 "userCollateralAccount", NoAmount, <<>>, <<>>)>>)
  ELSE a

\* A faulty addWrapIx that pushes the wrapper deposit before the creation of
\* the token account it mints into; C4's formula tells it from addWrapIx.
addWrapIxMintFirst(a) ==
  IF ~a.wrappedAta THEN Throw(a, "WrappedAtaNotInitialized") ELSE
  Push(Push(a, "preIxs",
            <<Ix("depositAndMintWrapperTokens", {"wrappedAta", "userTokenAccount"},
                 "none", a.amount, <<>>, <<>>)>>),
       "preIxs",
       <<Ix("createAssociatedTokenAccountIdempotent", {"userTokenAccount"},
            "userTokenAccount", NoAmount, <<>>, <<>>)>>)

\* A faulty addWrapIx that pushes the wrapper deposit to lendingIxs; C6's formula
\* tells it from addWrapIx.
addWrapIxIntoLending(a) ==
  IF ~a.wrappedAta THEN Throw(a, "WrappedAtaNotInitialized") ELSE
  Push(Push(a, "preIxs",
            <<Ix("createAssociatedTokenAccountIdempotent", {"userTokenAccount"},
                 "userTokenAccount", NoAmount, <<>>, <<>>)>>),
       "lendingIxs",
       <<Ix("depositAndMintWrapperTokens", {"wrappedAta", "userTokenAccount"},
            "none", a.amount, <<>>, <<>>)>>)

addWrapIx(a) ==
  IF ~a.wrappedAta THEN Throw(a, "WrappedAtaNotInitialized") ELSE
  Push(Push(a, "preIxs",
            <<Ix("createAssociatedTokenAccountIdempotent", {"userTokenAccount"},
                 "userTokenAccount", NoAmount, <<>>, <<>>)>>),
       "preIxs",
       <<Ix("depositAndMintWrapperTokens", {"wrappedAta", "userTokenAccount"},
            "none", a.amount, <<>>, <<>>)>>)

addUnwrapIx(a) ==
  IF ~a.wrappedAta THEN Throw(a, "WrappedAtaNotInitialized") ELSE
  Push(Push(a, "preIxs",
            <<Ix("createAssociatedTokenAccountIdempotent", {"wrappedAta"},
                 "wrappedAta", NoAmount, <<>>, <<>>)>>),
       "postIxs",
       <<Ix("withdrawAndBurnWrapperTokens", {"wrappedAta", "userTokenAccount"},
            "none", a.amount, <<>>, <<>>)>>)

addWrapUnwrapLiquidateIxs(a) == a

\* A faulty needUpdate that also asks for an update at exactly 30 seconds;
\* C29's formula tells it from the one below.
needUpdateOrEqual(publishAge) == publishAge >= StalenessSeconds

\* needUpdate of buildPullPriceTxns: Date.now() / 1000 - publishTime > 30.
needUpdate(publishAge) == publishAge > StalenessSeconds

\* buildPullPriceTxns.  oracleAccounts is what getMultipleAccountsInfo answers,
\* null for an account that does not exist.  The pull-oracle update
\* instructions go to preIxs.  pythPulledOracles keeps the accounts owned by
\* the Pyth receiver, which drops every null, so the throw inside the map
\* that follows meets none; the feeds that need an update are queued in
\* shuffledPriceIds, and when there is one the update transactions are built
\* and pushed to this.pullPriceTxns.
buildPullPriceTxns(a, ch) ==
  LET oracleAccounts ==
        <<[found |-> ch.pythOracle.found,
           owner |-> IF ch.pythOracle.found THEN "pythReceiver" ELSE "none",
           publishAge |-> ch.pythOracle.publishAge],
          [found |-> TRUE,
           owner |-> IF ch.sbPulled THEN "sbOnDemand" ELSE "other",
           publishAge |-> 0]>>
      IsSbPulled(o) == o.owner = "sbOnDemand"
      IsPythPulled(o) == o.owner = "pythReceiver"
      NeedsUpdate(o) == needUpdate(o.publishAge)
      sbPulledOracles == SelectSeq(oracleAccounts, IsSbPulled)
      pythPulledOracles == SelectSeq(oracleAccounts, IsPythPulled)
      sb == IF Len(sbPulledOracles) > 0
            THEN Push(a, "preIxs",
                      <<Ix("setComputeUnitPrice", {}, "none", NoAmount, <<>>, <<>>),
                        Ix("setComputeUnitLimit", {}, "none", NoAmount, <<>>, <<>>),
                        Ix("pullFeedUpdateMany", {}, "none", NoAmount, <<>>, <<>>)>>)
            ELSE a
      shuffledPriceIds == SelectSeq(pythPulledOracles, NeedsUpdate)
      queued == IF sb.err # "none" THEN sb
                ELSE [sb EXCEPT !.shuffledPriceIds = Len(shuffledPriceIds)]
  IN IF \E i \in 1 .. Len(pythPulledOracles) : ~pythPulledOracles[i].found
     THEN Throw(sb, "OracleDataNotFound")
     ELSE IF Len(shuffledPriceIds) > 0
     THEN Push(queued, "pullPriceTxns", <<>>)
     ELSE queued

allReserveAddresses(a) ==
  Dedup(a.depositReserves \o a.borrowReserves \o <<a.reserve>>)

RECURSIVE PushEach(_, _, _)
\* xs.forEach(x => this.<b>.push(ix(x)))
PushEach(a, b, ixs) ==
  IF ixs = <<>> THEN a
  ELSE PushEach(Push(a, b, <<Head(ixs)>>), b, Tail(ixs))

addRefreshReservesIxs(a, ch) ==
  LET rs == allReserveAddresses(a)
  IN PushEach(buildPullPriceTxns(a, ch), "setupIxs",
              [i \in 1 .. Len(rs) |->
                 Ix("refreshReserve", {}, "none", NoAmount, <<rs[i]>>, <<>>)])

addRefreshObligationIxs(a) ==
  Push(a, "setupIxs",
       <<Ix("refreshObligation", {"obligation"}, "none", NoAmount,
            a.depositReserves, a.borrowReserves)>>)

\* updateWSOLAccount up to the safeRepay it settles on: the amount, or for a
\* full repay of an existing obligation the debt re-derived from the reserve.
\* [err, safeRepay]
WsolSafeRepay(a, ch, action) ==
  IF a.obligationAccountInfo /\ action = "repay" /\ IsMax(a.amount)
  THEN IF ch.reserveRead = "missing"
       THEN [err |-> "ReserveFetch", safeRepay |-> a.amount]
       ELSE IF ch.reserveRead = "unparsable"
       THEN [err |-> "ReserveParse", safeRepay |-> a.amount]
       ELSE IF a.reserve \notin Range(a.borrowReserves)
       THEN [err |-> "BorrowNotFound", safeRepay |-> a.amount]
       ELSE [err |-> "none",
             safeRepay |-> SafeRepayOf(ch.borrowedAmountWads, ch.snapshotRate,
                                       ch.reserveRate)]
  ELSE [err |-> "none", safeRepay |-> a.amount]

sendAction(action) == action \in {"deposit", "repay", "mint"}

\* A faulty TransferLamports that adds the rent-exemption minimum whether or
\* not the WSOL account exists; C24's formula tells it from the one below.
TransferLamportsAlwaysRent(a, ch, action) ==
  RentExempt
  + (IF sendAction(action) THEN WsolSafeRepay(a, ch, action).safeRepay ELSE 0)

\* The lamports of updateWSOLAccount's transfer instruction.  safeRepay is a
\* BN read back with parseInt(safeRepay.toString(), 10), which is the same
\* integer for every amount a double holds exactly.
TransferLamports(a, ch, action) ==
  (IF ch.userTokenAccountInfo THEN 0 ELSE RentExempt)
  + (IF sendAction(action) THEN WsolSafeRepay(a, ch, action).safeRepay ELSE 0)

\* The instructions updateWSOLAccount collects in its local postIxs: the
\* closing of the WSOL account, unless the account exists and the action funds.
WsolPostIxs(ch, action) ==
  LET closeWSOLAccountIx ==
        Ix("closeAccount", {"userTokenAccount"}, "none", NoAmount, <<>>, <<>>)
  IN IF ch.userTokenAccountInfo
     THEN (IF sendAction(action) THEN <<>> ELSE <<closeWSOLAccountIx>>)
     ELSE <<closeWSOLAccountIx>>

\* The instructions updateWSOLAccount collects in its local preIxs.
WsolPreIxs(a, ch, action) ==
  LET transferLamportsIx ==
        Ix("transfer", {"userTokenAccount"}, "none",
           TransferLamports(a, ch, action), <<>>, <<>>)
      syncIx == Ix("syncNative", {"userTokenAccount"}, "none", NoAmount, <<>>, <<>>)
      createUserWSOLAccountIx ==
        Ix("createAssociatedTokenAccount", {"userTokenAccount"},
           "userTokenAccount", NoAmount, <<>>, <<>>)
  IN <<transferLamportsIx>> \o
     (IF ch.userTokenAccountInfo
      THEN (IF sendAction(action) THEN <<syncIx>> ELSE <<>>)
      ELSE <<createUserWSOLAccountIx>>)

updateWSOLAccount(a, ch, action) ==
  IF a.reserve \notin NativeReserves THEN a
  ELSE IF WsolSafeRepay(a, ch, action).err # "none"
  THEN Throw(a, WsolSafeRepay(a, ch, action).err)
  ELSE
    LET preIxs == WsolPreIxs(a, ch, action)
        postIxs == WsolPostIxs(ch, action)
        b == [a EXCEPT !.safeRepay = WsolSafeRepay(a, ch, action).safeRepay,
                       !.lamports = TransferLamports(a, ch, action)]
    IN IF PreBucketException(a)
       THEN Push(Push(b, "preIxs", preIxs), "postTxnIxs", postIxs)
       ELSE Push(Push(b, "setupIxs", preIxs), "cleanupIxs", postIxs)

\* One pass of addSupportIxs's loop body: the switch on the capability.
ResolveSupport(a, ch, action, support) ==
  CASE support = "createObligation" -> addObligationIxs(a)
    [] support = "wrap" -> IF a.wrappedAta THEN addWrapIx(a) ELSE a
    [] support = "unwrap" -> IF a.wrappedAta THEN addUnwrapIx(a) ELSE a
    [] support = "refreshReserves" -> addRefreshReservesIxs(a, ch)
    [] support = "refreshObligation" -> addRefreshObligationIxs(a)
    [] support = "cAta" -> addCAtaIxs(a, ch)
    [] support = "ata" -> addAtaIxs(a, ch)
    [] support = "wrapUnwrapLiquidate" ->
         IF a.wrappedAta THEN addWrapUnwrapLiquidateIxs(a) ELSE a
    [] support = "wsol" -> updateWSOLAccount(a, ch, action)

\* ------------------------------------------------------------ state
VARIABLES
  pc,            \* where the call stands: idle, support, lending, returned,
                 \* failed (the promise rejected), unit (an instance under test)
  entry,         \* the build entry point called (its action type)
  args,          \* the arguments initialize was called with
  axn,           \* the SolendActionCore instance
  chain,         \* the chain state the connection answers from
  si,            \* addSupportIxs's position in the capability list
  instructions,  \* what getInstructions resolved to, once called
  calls,         \* SpecUnit: the methods called on the instance, with what each threw
  \* runLiquidator
  lpc,           \* where runLiquidator stands
  epoch,         \* the epoch counter
  mi,            \* the index of `market` in markets
  oi,            \* the index of `obligation` in allObligations
  obligation,    \* the loop variable: the obligation as last loaded
  tokensOracle,  \* the oracle data fetched for the market
  allObligations,\* the obligations fetched for the market
  chainObligations, \* the obligation accounts on chain, per market
  selected,      \* selectedBorrow and selectedDeposit (list indices)
  outcome,       \* why the engine last left an obligation
  balanceReads,  \* calls of getWalletTokenData for this obligation
  submissions,   \* calls of liquidateAndRedeem for this obligation
  balanceBase,   \* the wallet balance last read for this obligation
  liquidityAmount, \* the amount last passed to liquidateAndRedeem for it
  submittedSinceFetch, \* a liquidation has landed since the market-level fetch
  \* getTokensOracleData
  opc,           \* where getTokensOracleData stands: off, running, resolved, rejected
  marketReserves,\* the oracle accounts the connection answers with, per reserve
  loaderUp,      \* whether SwitchboardProgram.loadMainnet resolves
  tasks,         \* one getTokenOracleData call per reserve
  switchboardV2, \* the module-level handle; NoHandle while undefined
  loadMainnetCalls, \* calls of SwitchboardProgram.loadMainnet so far
  oracleResult   \* what Promise.all resolved to

bvars == <<pc, entry, args, axn, chain, si, instructions, calls>>
lvars == <<lpc, epoch, mi, oi, obligation, tokensOracle, allObligations,
           chainObligations, selected, outcome,
           balanceReads, submissions, balanceBase, liquidityAmount,
           submittedSinceFetch>>
ovars == <<opc, marketReserves, loaderUp, tasks, switchboardV2,
           loadMainnetCalls, oracleResult>>
vars == <<bvars, lvars, ovars>>

NoArgs ==
  [reserve |-> 1, action |-> "none", amount |-> 0, hostAta |-> FALSE,
   lut |-> "none", repay |-> FALSE, token2022 |-> FALSE]

NotCalled == [called |-> FALSE, defined |-> FALSE, ixs |-> <<>>]

InitBuilder ==
  /\ pc = "idle"
  /\ entry = "none"
  /\ args = NoArgs
  /\ axn = NoAxn
  /\ chain = NoChain
  /\ si = 1
  /\ instructions = NotCalled
  /\ calls = <<>>

\* runLiquidator not started.
NoObligation == [present |-> FALSE, deposits |-> <<>>, borrows |-> <<>>]
NoSelection == [borrow |-> 0, deposit |-> 0]

IdleLiq ==
  /\ lpc = "off"
  /\ epoch = 0
  /\ mi = 1
  /\ oi = 1
  /\ obligation = NoObligation
  /\ tokensOracle = 0
  /\ allObligations = <<>>
  /\ chainObligations = <<>>
  /\ selected = NoSelection
  /\ outcome = "none"
  /\ balanceReads = 0
  /\ submissions = 0
  /\ balanceBase = 0
  /\ liquidityAmount = NoAmount
  /\ submittedSinceFetch = FALSE

NoHandle == 0

IdleOracle ==
  /\ opc = "off"
  /\ marketReserves = <<>>
  /\ loaderUp = TRUE
  /\ tasks = <<>>
  /\ switchboardV2 = NoHandle
  /\ loadMainnetCalls = 0
  /\ oracleResult = <<>>

Init == InitBuilder /\ IdleLiq /\ IdleOracle

\* The chain states worth telling apart for a call on `reserve` with `amount`:
\* the borrow's numbers and the reserve read are looked at only by a full
\* repay of the native reserve, the oracle accounts only by refreshReserves.
ChainStates(obs, reserve, amount, repays, refreshes) ==
  LET full == repays /\ reserve \in NativeReserves /\ IsMax(amount)
      reads == IF full
               THEN {<<"ok", B, r0, r1>> :
                       B \in BorrowedWads, r0 \in SnapshotRates, r1 \in CurrentRates}
                    \cup {<<rd, WAD, WAD, WAD>> : rd \in ReserveReads}
               ELSE {<<"ok", WAD, WAD, WAD>>}
  IN {[obligation |-> ob, userTokenAccountInfo |-> t, userCollateralAccountInfo |-> c,
       borrowedAmountWads |-> n[2], snapshotRate |-> n[3],
       reserveRead |-> n[1], reserveRate |-> n[4],
       sbPulled |-> sb, pythOracle |-> po] :
        ob \in obs, t \in BOOLEAN, c \in BOOLEAN, n \in reads,
        sb \in (IF refreshes THEN BOOLEAN ELSE {FALSE}),
        po \in (IF refreshes THEN PythOracles ELSE {NoOracleRead})}

Refreshes(action) ==
  \E i \in 1 .. Len(ACTION_SUPPORT_REQUIREMENTS[action]) :
    ACTION_SUPPORT_REQUIREMENTS[action][i] = "refreshReserves"

\* A faulty Outcome that swallows the rejection and goes on; C9's formula tells
\* it from the one below.
OutcomeIgnoringError(a, next) == next

\* An awaited step of a build function: a rejection ends the call, otherwise it
\* goes on to `next`.
Outcome(a, next) == IF a.err # "none" THEN "failed" ELSE next

\* A build entry point up to and including its call of initialize.
BuildCall(e, initAction, hostAtas, repay, token2022s) ==
  /\ pc = "idle"
  /\ \E reserve \in Reserves, amount \in Amounts, lut \in LookupTables,
        hostAta \in hostAtas, token2022 \in token2022s :
       \E ch \in ChainStates(ObligationStates, reserve, amount, e = "repay",
                             Refreshes(e)) :
         LET a == Initialize(ch.obligation, reserve, initAction, amount,
                             hostAta, lut, repay, token2022)
         IN /\ axn' = a
            /\ chain' = ch
            /\ entry' = e
            /\ args' = [reserve |-> reserve, action |-> initAction,
                        amount |-> amount, hostAta |-> hostAta, lut |-> lut,
                        repay |-> repay, token2022 |-> token2022]
            /\ pc' = Outcome(a, IF ACTION_SUPPORT_REQUIREMENTS[e] = <<>>
                                THEN "lending" ELSE "support")
  /\ UNCHANGED <<si, instructions, calls, lvars, ovars>>

buildForgiveTxns == BuildCall("forgive", "deposit", {FALSE}, FALSE, {FALSE})
buildDepositTxns == BuildCall("deposit", "deposit", {FALSE}, FALSE, BOOLEAN)
buildBorrowTxns == BuildCall("borrow", "borrow", BOOLEAN, FALSE, BOOLEAN)
buildDepositReserveLiquidityTxns == BuildCall("mint", "mint", {FALSE}, FALSE, BOOLEAN)
buildRedeemReserveCollateralTxns == BuildCall("redeem", "redeem", {FALSE}, FALSE, BOOLEAN)
buildDepositObligationCollateralTxns ==
  BuildCall("depositCollateral", "depositCollateral", {FALSE}, FALSE, {FALSE})
buildWithdrawCollateralTxns ==
  BuildCall("withdrawCollateral", "withdrawCollateral", {FALSE}, FALSE, {FALSE})
buildWithdrawTxns == BuildCall("withdraw", "withdraw", {FALSE}, FALSE, BOOLEAN)
buildRepayTxns == BuildCall("repay", "repay", {FALSE}, FALSE, BOOLEAN)
buildLiquidateTxns == BuildCall("liquidate", "liquidate", {FALSE}, TRUE, BOOLEAN)

\* addSupportIxs(entry), one capability of the list per step.
addSupportIxs ==
  /\ pc = "support"
  /\ LET supports == ACTION_SUPPORT_REQUIREMENTS[entry]
         a == ResolveSupport(axn, chain, entry, supports[si])
     IN /\ axn' = a
        /\ pc' = Outcome(a, IF si = Len(supports) THEN "lending" ELSE "support")
        /\ si' = IF a.err = "none" /\ si < Len(supports) THEN si + 1 ELSE si
  /\ UNCHANGED <<entry, args, chain, instructions, calls, lvars, ovars>>

\* The add*Ix method each build function calls after addSupportIxs.
LendingMethod(e) ==
  CASE e = "forgive" -> "addForgiveIx"
    [] e = "deposit" -> "addDepositIx"
    [] e = "borrow" -> "addBorrowIx"
    [] e = "mint" -> "addDepositReserveLiquidityIx"
    [] e = "redeem" -> "addRedeemReserveCollateralIx"
    [] e = "depositCollateral" -> "addDepositObligationCollateralIx"
    [] e = "withdrawCollateral" -> "addWithdrawIx"
    [] e = "withdraw" -> "addWithdrawIx"
    [] e = "repay" -> "addRepayIx"
    [] e = "liquidate" -> "addLiquidateIx"

\* The public add*Ix methods of the class.
AddIxMethods ==
  {"addForgiveIx", "addDepositIx", "addDepositReserveLiquidityIx",
   "addRedeemReserveCollateralIx", "addWithdrawObligationCollateralIx",
   "addDepositObligationCollateralIx", "addBorrowIx", "addWithdrawIx",
   "addRepayIx", "addLiquidateIx"}

\* axn.<method>()
AddIx(method, a) ==
  CASE method = "addForgiveIx" -> addForgiveIx(a)
    [] method = "addDepositIx" -> addDepositIx(a)
    [] method = "addDepositReserveLiquidityIx" -> addDepositReserveLiquidityIx(a)
    [] method = "addRedeemReserveCollateralIx" -> addRedeemReserveCollateralIx(a)
    [] method = "addWithdrawObligationCollateralIx" ->
         addWithdrawObligationCollateralIx(a)
    [] method = "addDepositObligationCollateralIx" ->
         addDepositObligationCollateralIx(a)
    [] method = "addBorrowIx" -> addBorrowIx(a)
    [] method = "addWithdrawIx" -> addWithdrawIx(a)
    [] method = "addRepayIx" -> addRepayIx(a)
    [] method = "addLiquidateIx" -> addLiquidateIx(a)

\* The add*Ix call each build function makes after addSupportIxs.
LendingIx(e, a) == AddIx(LendingMethod(e), a)

\* The build function's add*Ix call and its `return axn`.
addLendingIx ==
  /\ pc = "lending"
  /\ LET a == LendingIx(entry, axn)
     IN /\ axn' = a
        /\ pc' = Outcome(a, "returned")
  /\ UNCHANGED <<entry, args, chain, si, instructions, calls, lvars, ovars>>

\* async getInstructions() {}: resolves to undefined.
getInstructions(a) == [called |-> TRUE, defined |-> FALSE, ixs |-> <<>>]

\* The caller asks the returned plan for its instructions.
GetInstructions ==
  /\ pc = "returned"
  /\ ~instructions.called
  /\ instructions' = getInstructions(axn)
  /\ UNCHANGED <<pc, entry, args, axn, chain, si, calls, lvars, ovars>>


Next ==
  \/ buildForgiveTxns
  \/ buildDepositTxns
  \/ buildBorrowTxns
  \/ buildDepositReserveLiquidityTxns
  \/ buildRedeemReserveCollateralTxns
  \/ buildDepositObligationCollateralTxns
  \/ buildWithdrawCollateralTxns
  \/ buildWithdrawTxns
  \/ buildRepayTxns
  \/ buildLiquidateTxns
  \/ addSupportIxs
  \/ addLendingIx
  \/ GetInstructions

Spec == Init /\ [][Next]_vars

\* ------------------------------------------------------------ SpecUnit
\* The obligations SpecUnit starts from: none, and those that borrow nothing or
\* the native reserve and deposit an initial run of the other reserves.
UnitObligations ==
  {ob \in ObligationStates :
     /\ Range(ob.borrows) \subseteq NativeReserves
     /\ \E k \in 0 .. POSITION_LIMIT :
          Range(ob.deposits) = {r \in Reserves \ NativeReserves : r <= k + 1}}

\* The native reserve and one other.
UnitReserves == NativeReserves \cup {CHOOSE r \in Reserves : r \notin NativeReserves}

\* initialize called directly.
UnitInitialize ==
  /\ pc = "idle"
  /\ \E reserve \in UnitReserves, action \in {"deposit", "repay"},
        amount \in {1, U64_MAX}, lut \in {"none", "found"}, hostAta \in BOOLEAN,
        repay \in BOOLEAN, token2022 \in BOOLEAN :
       \E ch \in ChainStates(UnitObligations, reserve, amount, TRUE, FALSE) :
         LET a == Initialize(ch.obligation, reserve, action, amount,
                             hostAta, lut, repay, token2022)
         IN /\ axn' = a
            /\ chain' = ch
            /\ args' = [reserve |-> reserve, action |-> action,
                        amount |-> amount, hostAta |-> hostAta, lut |-> lut,
                        repay |-> repay, token2022 |-> token2022]
            /\ pc' = Outcome(a, "unit")
  /\ UNCHANGED <<entry, si, instructions, calls, lvars, ovars>>

RECURSIVE ResolveAll(_, _, _, _)
\* addSupportIxs(action) as one call: the capabilities in order, up to the first
\* that throws.
ResolveAll(a, ch, action, supports) ==
  IF supports = <<>> \/ a.err # "none" THEN a
  ELSE ResolveAll(ResolveSupport(a, ch, action, Head(supports)), ch, action,
                  Tail(supports))

\* A method called on the instance, up to MaxCalls times in a row: the instance
\* as the method leaves it, and the call noted with the error it threw (the
\* caller catches it).
UnitCall(method, action, a) ==
  /\ pc = "unit"
  /\ Len(calls) < MaxCalls
  /\ calls # <<>> => calls[1].method = method /\ calls[1].action = action
  /\ axn' = [a EXCEPT !.err = "none"]
  /\ calls' = Append(calls, [method |-> method, action |-> action, err |-> a.err])
  /\ UNCHANGED <<pc, entry, args, chain, si, instructions, lvars, ovars>>

UnitAddSupportIxs ==
  \E action \in ActionTypes :
    UnitCall("addSupportIxs", action,
             ResolveAll(axn, chain, action, ACTION_SUPPORT_REQUIREMENTS[action]))
UnitUpdateWSOLAccount ==
  \E action \in ActionTypes :
    UnitCall("updateWSOLAccount", action, updateWSOLAccount(axn, chain, action))
UnitAddObligationIxs == UnitCall("addObligationIxs", "none", addObligationIxs(axn))
UnitAddAtaIxs == UnitCall("addAtaIxs", "none", addAtaIxs(axn, chain))
UnitAddCAtaIxs == UnitCall("addCAtaIxs", "none", addCAtaIxs(axn, chain))
UnitAddWrapIx == UnitCall("addWrapIx", "none", addWrapIx(axn))
UnitAddUnwrapIx == UnitCall("addUnwrapIx", "none", addUnwrapIx(axn))
UnitAddWrapUnwrapLiquidateIxs ==
  UnitCall("addWrapUnwrapLiquidateIxs", "none", addWrapUnwrapLiquidateIxs(axn))
UnitAddRefreshReservesIxs ==
  \E sb \in BOOLEAN, po \in PythOracles :
    UnitCall("addRefreshReservesIxs", "none",
             addRefreshReservesIxs(axn, [chain EXCEPT !.sbPulled = sb,
                                                       !.pythOracle = po]))
\* buildPullPriceTxns called alone, against the oracle accounts the chain holds
\* at the time of the call.
UnitBuildPullPriceTxns ==
  /\ pc = "unit"
  /\ Len(calls) < MaxCalls
  /\ calls # <<>> => calls[1].method = "buildPullPriceTxns"
  /\ \E sb \in BOOLEAN, po \in PythOracles :
       LET ch == [chain EXCEPT !.sbPulled = sb, !.pythOracle = po]
           a == buildPullPriceTxns(axn, ch)
       IN /\ chain' = ch
          /\ axn' = [a EXCEPT !.err = "none"]
          /\ calls' = Append(calls, [method |-> "buildPullPriceTxns",
                                     action |-> "none", err |-> a.err])
  /\ UNCHANGED <<pc, entry, args, si, instructions, lvars, ovars>>
UnitAddRefreshObligationIxs ==
  UnitCall("addRefreshObligationIxs", "none", addRefreshObligationIxs(axn))
UnitAddForgiveIx == UnitCall("addForgiveIx", "none", addForgiveIx(axn))
UnitAddDepositIx == UnitCall("addDepositIx", "none", addDepositIx(axn))
UnitAddDepositReserveLiquidityIx ==
  UnitCall("addDepositReserveLiquidityIx", "none", addDepositReserveLiquidityIx(axn))
UnitAddRedeemReserveCollateralIx ==
  UnitCall("addRedeemReserveCollateralIx", "none", addRedeemReserveCollateralIx(axn))
UnitAddWithdrawObligationCollateralIx ==
  UnitCall("addWithdrawObligationCollateralIx", "none",
           addWithdrawObligationCollateralIx(axn))
UnitAddDepositObligationCollateralIx ==
  UnitCall("addDepositObligationCollateralIx", "none",
           addDepositObligationCollateralIx(axn))
UnitAddBorrowIx == UnitCall("addBorrowIx", "none", addBorrowIx(axn))
UnitAddWithdrawIx == UnitCall("addWithdrawIx", "none", addWithdrawIx(axn))
UnitAddRepayIx == UnitCall("addRepayIx", "none", addRepayIx(axn))
UnitAddLiquidateIx == UnitCall("addLiquidateIx", "none", addLiquidateIx(axn))

NextUnit ==
  \/ UnitInitialize
  \/ UnitAddSupportIxs
  \/ UnitUpdateWSOLAccount
  \/ UnitAddObligationIxs
  \/ UnitAddAtaIxs
  \/ UnitAddCAtaIxs
  \/ UnitAddWrapIx
  \/ UnitAddUnwrapIx
  \/ UnitAddWrapUnwrapLiquidateIxs
  \/ UnitAddRefreshReservesIxs
  \/ UnitBuildPullPriceTxns
  \/ UnitAddRefreshObligationIxs
  \/ UnitAddForgiveIx
  \/ UnitAddDepositIx
  \/ UnitAddDepositReserveLiquidityIx
  \/ UnitAddRedeemReserveCollateralIx
  \/ UnitAddWithdrawObligationCollateralIx
  \/ UnitAddDepositObligationCollateralIx
  \/ UnitAddBorrowIx
  \/ UnitAddWithdrawIx
  \/ UnitAddRepayIx
  \/ UnitAddLiquidateIx

SpecUnit == Init /\ [][NextUnit]_vars

\* ------------------------------------------------------------ runLiquidator
\* The configured markets (getMarkets()).
markets == <<"main", "turbo">>

\* Oracle prices of the borrowed token as getTokensOracleData may read them;
\* deposits are valued at 1.
Prices == {1, 2}

\* balanceBase as getWalletTokenData answers it: -1 (no token account, or a
\* network error), 0, or a positive balance.
WalletBalances == {0 - 1, 0, 5, 9}

\* Obligation accounts as runLiquidator meets them: the collateral amount of each
\* deposit and the debt of each borrow.
LiqObligations ==
  {[present |-> TRUE, deposits |-> o[1], borrows |-> o[2]] :
     o \in {<<<<>>, <<>>>>, <<<<>>, <<2>>>>, <<<<4>>, <<3, 8>>>>,
            <<<<1, 5, 5>>, <<3, 8>>>>}}

RECURSIVE SeqsUpTo(_, _)
\* The sequences over S of length 1 .. n.
SeqsUpTo(S, n) ==
  IF n = 0 THEN {}
  ELSE {<<x>> : x \in S} \cup
       {Append(xs, x) : xs \in SeqsUpTo(S, n - 1), x \in S}

RECURSIVE Sum(_)
Sum(xs) == IF xs = <<>> THEN 0 ELSE Head(xs) + Sum(Tail(xs))

\* calculateRefreshedObligation(obligation.info, allReserves, tokensOracle):
\* the borrowed value, the unhealthy-borrow threshold and the positions with
\* their market values.
calculateRefreshedObligation(ob, price) ==
  [borrowedValue |-> Sum(ob.borrows) * price,
   unhealthyBorrowValue |-> Sum(ob.deposits),
   deposits |-> ob.deposits,
   borrows |-> [i \in 1 .. Len(ob.borrows) |-> ob.borrows[i] * price]]

\* A faulty health check with isLessThan: an obligation exactly at its threshold
\* counts as unhealthy; C10's formula tells it from the one below.
IsHealthyStrict(r) == r.borrowedValue < r.unhealthyBorrowValue

\* borrowedValue.isLessThanOrEqualTo(unhealthyBorrowValue)
IsHealthy(r) == r.borrowedValue <= r.unhealthyBorrowValue

\* sortBorrows(borrows)[0]: a borrow of the greatest market value (its index; 0:
\* undefined, the list is empty).
selectedBorrow(borrows) ==
  IF borrows = <<>> THEN 0
  ELSE CHOOSE i \in 1 .. Len(borrows) :
         /\ \A j \in 1 .. Len(borrows) : borrows[j] <= borrows[i]
         /\ \A j \in 1 .. i - 1 : borrows[j] < borrows[i]

RECURSIVE forEachDeposit(_, _, _, _)
\* deposits.forEach((deposit) => { if (!selectedDeposit || <deposit beats it>)
\* selectedDeposit = deposit }) from position i on, sel being the selection so
\* far (an index; 0: undefined).  orEqual: the comparison also takes a deposit
\* of equal value (gte); the program's is gt.
forEachDeposit(deposits, i, sel, orEqual) ==
  IF i > Len(deposits) THEN sel
  ELSE forEachDeposit(deposits, i + 1,
                      IF \/ sel = 0
                         \/ deposits[i] > deposits[sel]
                         \/ (orEqual /\ deposits[i] = deposits[sel])
                      THEN i ELSE sel,
                      orEqual)

\* A faulty selection comparing with gte, which keeps the last of several
\* deposits of the greatest value; C11's formula tells it from the one below.
selectedDepositGte(deposits) == forEachDeposit(deposits, 1, 0, TRUE)

\* let selectedDeposit; deposits.forEach(... deposit.marketValue.gt(...) ...)
selectedDeposit(deposits) == forEachDeposit(deposits, 1, 0, FALSE)

\* A faulty test that looks at the borrow alone, so that an obligation with no
\* deposit to seize goes on to the balance read; C31's formula tells it from
\* the one below.
NothingSelectedBorrowOnly(b, d) == b = 0

\* if (!selectedBorrow || !selectedDeposit): the skip of toxic obligations.
NothingSelected(b, d) == b = 0 \/ d = 0

\* The lending program's liquidation: part of the selected borrow is repaid.
Liquidated(ob, sel) ==
  [ob EXCEPT !.borrows[sel.borrow] = @ \div 2]

\* runLiquidator is started.
StartLiquidator ==
  /\ lpc = "off"
  /\ \E first \in SeqsUpTo(LiqObligations, MaxObligations),
        second \in {<<[present |-> TRUE, deposits |-> <<4>>,
                         borrows |-> <<3, 8>>]>>} :
       chainObligations' = <<first, second>>
  /\ lpc' = "market"
  /\ UNCHANGED <<epoch, mi, oi, obligation, tokensOracle, allObligations,
                 selected, outcome, balanceReads, submissions, balanceBase,
                 liquidityAmount, submittedSinceFetch, bvars, ovars>>

\* The head of `for (const market of markets)`: getTokensOracleData,
\* getObligations and getReserves, outside any try; one that rejects ends
\* runLiquidator.
FetchMarket ==
  /\ lpc = "market"
  /\ \/ /\ \E price \in Prices : tokensOracle' = price
        /\ allObligations' = chainObligations[mi]
        /\ oi' = 1
        /\ submittedSinceFetch' = FALSE
        /\ lpc' = "obligation"
     \/ /\ lpc' = "crashed"
        /\ UNCHANGED <<tokensOracle, allObligations, oi, submittedSinceFetch>>
  /\ UNCHANGED <<epoch, mi, obligation, chainObligations, selected, outcome,
                 balanceReads, submissions, balanceBase, liquidityAmount,
                 bvars, ovars>>

\* The head of `for (let obligation of allObligations)`, and past its end the
\* next market or the next epoch.
NextObligation ==
  /\ lpc = "obligation"
  /\ IF oi <= Len(allObligations)
     THEN /\ obligation' = allObligations[oi]
          /\ lpc' = "evaluate"
          /\ outcome' = "none"
          /\ balanceReads' = 0
          /\ submissions' = 0
          /\ balanceBase' = 0
          /\ liquidityAmount' = NoAmount
          /\ UNCHANGED <<epoch, mi>>
     ELSE IF mi < Len(markets)
     THEN /\ mi' = mi + 1
          /\ lpc' = "market"
          /\ UNCHANGED <<epoch, obligation, outcome, balanceReads, submissions,
                         balanceBase, liquidityAmount>>
     ELSE IF epoch + 1 < MaxEpochs
     THEN /\ epoch' = epoch + 1
          /\ mi' = 1
          /\ lpc' = "market"
          /\ UNCHANGED <<obligation, outcome, balanceReads, submissions,
                         balanceBase, liquidityAmount>>
     ELSE /\ lpc' = "capped"
          /\ UNCHANGED <<epoch, mi, obligation, outcome, balanceReads,
                         submissions, balanceBase, liquidityAmount>>
  /\ UNCHANGED <<oi, tokensOracle, allObligations, chainObligations, selected,
                 submittedSinceFetch,
                 bvars, ovars>>

\* A faulty Leave whose try/catch stands outside the obligation loop: an error
\* ends runLiquidator; C13's formula tells it from the one below.
LeaveUncaught(why) ==
  /\ outcome' = why
  /\ oi' = IF why = "error" THEN oi ELSE oi + 1
  /\ lpc' = IF why = "error" THEN "crashed" ELSE "obligation"

\* The engine leaves the obligation (break, or the catch's continue).
Leave(why) ==
  /\ outcome' = why
  /\ oi' = oi + 1
  /\ lpc' = "obligation"

\* `while (obligation)` down to the first await: the evaluation, the health
\* check and the selection of the pair.
Evaluate ==
  /\ lpc = "evaluate"
  /\ \/ /\ ~obligation.present
        /\ Leave("null")
        /\ UNCHANGED selected
     \/ /\ obligation.present
        /\ LET r == calculateRefreshedObligation(obligation, tokensOracle)
               b == selectedBorrow(r.borrows)
               d == selectedDeposit(r.deposits)
           IN IF IsHealthy(r)
              THEN Leave("healthy") /\ UNCHANGED selected
              ELSE IF NothingSelected(b, d)
              THEN Leave("noSelection") /\ UNCHANGED selected
              ELSE /\ selected' = [borrow |-> b, deposit |-> d]
                   /\ lpc' = "balance"
                   /\ UNCHANGED <<oi, outcome>>
     \/ /\ obligation.present
        /\ Leave("error")
        /\ UNCHANGED selected
  /\ UNCHANGED <<epoch, mi, obligation, tokensOracle, allObligations,
                 chainObligations, balanceReads,
                 submissions, balanceBase, liquidityAmount,
                 submittedSinceFetch, bvars, ovars>>

\* A faulty ReadBalance that tests only `balanceBase === 0`, so that an
\* unreadable (negative) balance goes on to the submission; C16's formula tells
\* it from the one below.
ReadBalanceZeroOnly ==
  /\ lpc = "balance"
  /\ balanceReads' = balanceReads + 1
  /\ \/ \E balance \in WalletBalances :
          /\ balanceBase' = balance
          /\ IF balance = 0 THEN Leave("zeroBalance")
             ELSE /\ lpc' = "submit"
                  /\ UNCHANGED <<oi, outcome>>
     \/ /\ Leave("error")
        /\ UNCHANGED balanceBase
  /\ UNCHANGED <<epoch, mi, obligation, tokensOracle, allObligations,
                 chainObligations, selected, submissions, liquidityAmount, submittedSinceFetch,
                 bvars, ovars>>

\* await getWalletTokenData(...) and the two balance checks; the call may
\* reject instead.
ReadBalance ==
  /\ lpc = "balance"
  /\ balanceReads' = balanceReads + 1
  /\ \/ \E balance \in WalletBalances :
          /\ balanceBase' = balance
          /\ IF balance = 0 THEN Leave("zeroBalance")
             ELSE IF balance < 0 THEN Leave("noBalance")
             ELSE /\ lpc' = "submit"
                  /\ UNCHANGED <<oi, outcome>>
     \/ /\ Leave("error")
        /\ UNCHANGED balanceBase
  /\ UNCHANGED <<epoch, mi, obligation, tokensOracle, allObligations,
                 chainObligations, selected, submissions, liquidityAmount, submittedSinceFetch,
                 bvars, ovars>>

\* A faulty Submit that breaks out of the loop after a liquidation instead of
\* reloading the obligation; C14's formula tells it from the one below.
SubmitAndMoveOn ==
  /\ lpc = "submit"
  /\ submissions' = submissions + 1
  /\ liquidityAmount' = balanceBase
  /\ \/ /\ chainObligations' =
             [chainObligations EXCEPT ![mi][oi] = Liquidated(@, selected)]
        /\ submittedSinceFetch' = TRUE
        /\ Leave("liquidated")
     \/ /\ Leave("error")
        /\ UNCHANGED <<chainObligations, submittedSinceFetch>>
  /\ UNCHANGED <<epoch, mi, obligation, tokensOracle, allObligations, selected,
                 balanceReads, balanceBase, bvars, ovars>>

\* await liquidateAndRedeem(connection, payer, balanceBase, ...): the
\* liquidation lands, or the call rejects.
Submit ==
  /\ lpc = "submit"
  /\ submissions' = submissions + 1
  /\ liquidityAmount' = balanceBase
  /\ \/ /\ chainObligations' =
             [chainObligations EXCEPT ![mi][oi] = Liquidated(@, selected)]
        /\ submittedSinceFetch' = TRUE
        /\ lpc' = "refetch"
        /\ UNCHANGED <<oi, outcome>>
     \/ /\ Leave("error")
        /\ UNCHANGED <<chainObligations, submittedSinceFetch>>
  /\ UNCHANGED <<epoch, mi, obligation, tokensOracle, allObligations, selected,
                 balanceReads, balanceBase, bvars, ovars>>

\* A faulty reload that takes the obligation from the market's list fetched at
\* the start of the scan instead of from chain; C12's formula tells it from the
\* one below.
RefetchFromList ==
  /\ lpc = "refetch"
  /\ obligation' = allObligations[oi]
  /\ lpc' = "evaluate"
  /\ UNCHANGED <<epoch, mi, oi, outcome, tokensOracle, allObligations,
                 chainObligations, selected, balanceReads, submissions,
                 balanceBase, liquidityAmount, submittedSinceFetch, bvars, ovars>>

\* await connection.getAccountInfo(obligation.pubkey) and parseObligation: the
\* obligation as it is on chain now, null, or an error.
Refetch ==
  /\ lpc = "refetch"
  /\ \/ /\ obligation' = chainObligations[mi][oi]
        /\ lpc' = "evaluate"
        /\ UNCHANGED <<oi, outcome>>
     \/ /\ obligation' = NoObligation
        /\ lpc' = "evaluate"
        /\ UNCHANGED <<oi, outcome>>
     \/ /\ Leave("error")
        /\ UNCHANGED obligation
  /\ UNCHANGED <<epoch, mi, tokensOracle, allObligations, chainObligations,
                 selected, balanceReads, submissions, balanceBase,
                 liquidityAmount, submittedSinceFetch, bvars, ovars>>

NextLiq ==
  \/ StartLiquidator
  \/ FetchMarket
  \/ NextObligation
  \/ Evaluate
  \/ ReadBalance
  \/ Submit
  \/ Refetch

SpecLiq == Init /\ [][NextLiq]_vars

\* ------------------------------------------------------------ getTokensOracleData
\* What decoding an aggregator account yields: nothing, zero or a price.
NoPrice == 0 - 1
DecodedPrices == {NoPrice, 0, 3}

\* The oracle account of one reserve as the connection answers: the read
\* rejects, or resolves to no account, or to an account with an owner and the
\* value its data decodes to.
OracleAccounts ==
  {[read |-> "ok", owner |-> o, decoded |-> d] :
     o \in {"SWITCHBOARD_V1", "SWITCHBOARD_V2"}, d \in DecodedPrices}
  \cup {[read |-> "ok", owner |-> o, decoded |-> NoPrice] :
          o \in {"other", "undefined"}}
  \cup {[read |-> "rejects", owner |-> "undefined", decoded |-> NoPrice]}

MarketReserves ==
  UNION {[1..n -> OracleAccounts] : n \in 1..MaxReserves}

\* A getTokenOracleData call: where it stands, the handle it asked
\* loadMainnet for or decoded with, and the price of the entry it returned.
NewTask == [pc |-> "getAccountInfo", handle |-> NoHandle, price |-> NoPrice]

\* if (!priceData) { priceData = 0 }; price: new BigNumber(priceData)
PriceKeepingUndefined(priceData) == priceData

PriceOf(priceData) ==
  IF priceData = NoPrice \/ priceData = 0 THEN 0 ELSE priceData

Returned(t, handle, priceData) ==
  [t EXCEPT !.pc = "returned", !.handle = handle, !.price = PriceOf(priceData)]

\* market.reserves.map(getTokenOracleData): every call runs up to its first
\* await before map returns.
getTokensOracleData ==
  /\ opc = "off"
  /\ \E rs \in MarketReserves, up \in BOOLEAN :
       /\ marketReserves' = rs
       /\ loaderUp' = up
       /\ tasks' = [i \in DOMAIN rs |-> NewTask]
  /\ opc' = "running"
  /\ UNCHANGED <<switchboardV2, loadMainnetCalls, oracleResult, bvars, lvars>>

\* getTokenOracleData resumed after await connection.getAccountInfo, up to its
\* return or to await SwitchboardProgram.loadMainnet.
getAccountInfoSettles(i) ==
  /\ i \in DOMAIN tasks
  /\ tasks[i].pc = "getAccountInfo"
  /\ LET acc == marketReserves[i]
         t == tasks[i]
     IN
     /\ tasks' =
          [tasks EXCEPT ![i] =
             IF acc.read = "rejects" THEN [t EXCEPT !.pc = "rejected"]
             ELSE IF acc.owner = "SWITCHBOARD_V1"
               THEN Returned(t, NoHandle, acc.decoded)
             ELSE IF acc.owner = "SWITCHBOARD_V2"
               THEN IF switchboardV2 = NoHandle
                      THEN [t EXCEPT !.pc = "loadMainnet",
                                     !.handle = loadMainnetCalls + 1]
                      ELSE Returned(t, switchboardV2, acc.decoded)
             ELSE Returned(t, NoHandle, NoPrice)]
     /\ loadMainnetCalls' =
          IF acc.read = "ok" /\ acc.owner = "SWITCHBOARD_V2"
             /\ switchboardV2 = NoHandle
            THEN loadMainnetCalls + 1 ELSE loadMainnetCalls
  /\ UNCHANGED <<opc, marketReserves, loaderUp, switchboardV2, oracleResult,
                 bvars, lvars>>

\* getTokenOracleData resumed after await SwitchboardProgram.loadMainnet: the
\* handle is assigned and the aggregator decoded with it.
loadMainnetSettles(i) ==
  /\ i \in DOMAIN tasks
  /\ tasks[i].pc = "loadMainnet"
  /\ IF loaderUp
       THEN /\ switchboardV2' = tasks[i].handle
            /\ tasks' = [tasks EXCEPT ![i] =
                 Returned(tasks[i], tasks[i].handle, marketReserves[i].decoded)]
       ELSE /\ tasks' = [tasks EXCEPT ![i].pc = "rejected"]
            /\ UNCHANGED switchboardV2
  /\ UNCHANGED <<opc, marketReserves, loaderUp, loadMainnetCalls, oracleResult,
                 bvars, lvars>>

\* await Promise.all(promises): rejects with the first rejection, resolves to
\* the entries in the promises' order once every call has returned.
PromiseAll ==
  /\ opc = "running"
  /\ \/ /\ \E i \in DOMAIN tasks : tasks[i].pc = "rejected"
        /\ opc' = "rejected"
        /\ UNCHANGED oracleResult
     \/ /\ \A i \in DOMAIN tasks : tasks[i].pc = "returned"
        /\ opc' = "resolved"
        /\ oracleResult' =
             [i \in DOMAIN tasks |-> [reserve |-> i, price |-> tasks[i].price]]
  /\ UNCHANGED <<marketReserves, loaderUp, tasks, switchboardV2,
                 loadMainnetCalls, bvars, lvars>>

NextOracle ==
  \/ getTokensOracleData
  \/ \E i \in 1..MaxReserves : getAccountInfoSettles(i)
  \/ \E i \in 1..MaxReserves : loadMainnetSettles(i)
  \/ PromiseAll

SpecOracle == Init /\ [][NextOracle]_vars

\* ------------------------------------------------------------ properties
\* this.<b> as a list: empty when the property was never assigned.
Bucket(a, b) == IF b \in DOMAIN a.buckets THEN a.buckets[b] ELSE <<>>

\* The five buckets in submission order.
Concatenation(a) ==
  Bucket(a, "setupIxs") \o Bucket(a, "preIxs") \o Bucket(a, "lendingIxs")
  \o Bucket(a, "postIxs") \o Bucket(a, "cleanupIxs")

NoBucketTouched(a) == \A b \in DOMAIN a.buckets : a.buckets[b] = <<>>

\* The distinct reserves the obligation read by initialize holds.
Held == Range(chain.obligation.deposits) \cup Range(chain.obligation.borrows)

\* C1: when the obligation holds POSITION_LIMIT distinct reserves and initialize
\* is called for a deposit or a borrow on a reserve it does not hold, the call
\* fails with the position-limit error thrown by initialize: no object is
\* constructed, no bucket holds an instruction, and no plan is returned.
C1_PositionLimitRejects ==
  (/\ pc # "idle"
   /\ args.action \in {"deposit", "borrow"}
   /\ Cardinality(Held) = POSITION_LIMIT
   /\ args.reserve \notin Held)
  => /\ pc = "failed"
     /\ axn.err = "PositionLimit"
     /\ ~axn.constructed
     /\ NoBucketTouched(axn)
     /\ ~instructions.called

C1_Witness ==
  /\ pc = "failed"
  /\ entry = "deposit"
  /\ axn.err = "PositionLimit"
  /\ Cardinality(Held) = POSITION_LIMIT
  /\ args.reserve \notin Held

\* C2: initialize rejects an action only when the union of the obligation's
\* deposit reserves, its borrow reserves and the reserve the action newly
\* touches has more than POSITION_LIMIT elements, a reserve that is both a
\* deposit and a borrow counting once.
C2_CountIsUnion ==
  axn.err = "PositionLimit"
  => Cardinality(Held \cup {args.reserve}) > POSITION_LIMIT

\* C3: getInstructions on a returned plan yields the concatenation of the
\* buckets setup, pre, lending, post, cleanup, each in its own order.
C3_GetInstructionsOrder ==
  instructions.called
  => /\ instructions.defined
     /\ instructions.ixs = Concatenation(axn)

\* An instruction outside `exempt` that references an account the list creates
\* stands before the first instruction creating that account.
UsedBeforeCreated(ixs, exempt) ==
  \E i \in 1 .. Len(ixs) :
    /\ ixs[i].ix \notin exempt
    /\ \E acct \in ixs[i].refs :
         /\ \E j \in 1 .. Len(ixs) : ixs[j].creates = acct
         /\ \A j \in 1 .. i : ixs[j].creates # acct

\* C4, as amended: in the concatenation setup-pre-lending-post-cleanup no
\* instruction other than the lamport transfer that funds the user's WSOL
\* account references an account the plan creates before that account's
\* creation instruction; that transfer stands directly before the creation of
\* the WSOL account it funds.
C4_CreatedBeforeUsedButFunding ==
  LET ixs == Concatenation(axn)
  IN /\ ~UsedBeforeCreated(ixs, {"transfer"})
     /\ \A i \in 1 .. Len(ixs) :
          (ixs[i].ix = "transfer" /\ ~chain.userTokenAccountInfo)
          => /\ i < Len(ixs)
             /\ ixs[i + 1].creates = "userTokenAccount"

\* A returned plan that creates an account in pre and uses it afterwards.
C4_Witness ==
  /\ pc = "returned"
  /\ \E i \in 1 .. Len(Concatenation(axn)) :
       \E j \in (i + 1) .. Len(Concatenation(axn)) :
         /\ Concatenation(axn)[i].creates # "none"
         /\ Concatenation(axn)[i].creates \in Concatenation(axn)[j].refs

\* C4 as stated: no instruction at all references an account the plan creates
\* before that account's creation instruction.
C4_CreatedBeforeUsed == ~UsedBeforeCreated(Concatenation(axn), {})

\* The lending instruction each of addDepositIx, addWithdrawIx and addRepayIx is
\* to push for the sentinel amount and for any other amount: [ix, amount].
SentinelVariant(method) ==
  CASE method = "addDepositIx" ->
         [ix |-> "depositMaxReserveLiquidityAndObligationCollateral",
          amount |-> NoAmount]
    [] method = "addWithdrawIx" ->
         [ix |-> "withdrawObligationCollateralAndRedeemReserveLiquidity",
          amount |-> U64_MAX]
    [] method = "addRepayIx" ->
         [ix |-> "repayMaxObligationLiquidity", amount |-> NoAmount]

LiteralVariant(method, amount) ==
  CASE method = "addDepositIx" ->
         [ix |-> "depositReserveLiquidityAndObligationCollateral", amount |-> amount]
    [] method = "addWithdrawIx" -> [ix |-> "withdrawExact", amount |-> amount]
    [] method = "addRepayIx" ->
         [ix |-> "repayObligationLiquidity", amount |-> amount]

C6_OneLendingInstruction ==
  /\ pc \in {"support", "lending"} => Bucket(axn, "lendingIxs") = <<>>
  /\ pc = "returned" => Len(Bucket(axn, "lendingIxs")) = 1

\* A returned plan to whose pre bucket support resolution has appended.
C6_Witness ==
  /\ pc = "returned"
  /\ Bucket(axn, "preIxs") # <<>>
  /\ Len(Bucket(axn, "lendingIxs")) = 1

\* The creation instructions for `acct` in the plan's buckets.
Creations(a, acct) ==
  {i \in 1 .. Len(Concatenation(a)) : Concatenation(a)[i].creates = acct}

\* C7: after addAtaIxs, addCAtaIxs or addObligationIxs has been called twice in
\* a row against the same chain state, no account has two creation
\* instructions in the plan's buckets.
C7_IdempotentCreation ==
  (/\ Len(calls) >= 2
   /\ calls[1].method \in {"addAtaIxs", "addCAtaIxs", "addObligationIxs"}
   /\ calls[2].method = calls[1].method)
  => \A acct \in {"obligation", "userTokenAccount", "userCollateralAccount"} :
       Cardinality(Creations(axn, acct)) <= 1

\* C8: for a repay of U64_MAX on the native reserve of an existing obligation,
\* the amount updateWSOLAccount settles on is
\* floor(B * r1 / r0 / WAD) + SOL_PADDING_FOR_INTEREST.
C8_RepaySizing ==
  (/\ entry = "repay"
   /\ args.reserve \in NativeReserves
   /\ args.amount = U64_MAX
   /\ chain.obligation.exists
   /\ axn.safeRepay # NoAmount)
  => axn.safeRepay =
       (chain.borrowedAmountWads * chain.reserveRate)
         \div (chain.snapshotRate * WAD)
       + SOL_PADDING_FOR_INTEREST

\* C9: a step of a build call that throws ends the call with that error: the
\* call is never carried on past an error, and a plan is returned only with no
\* error, every capability of its action resolved and its lending instruction
\* added; a failed call leaves the caller no plan to ask for instructions.
C9_FirstErrorNoPlan ==
  /\ axn.err # "none" => pc = "failed"
  /\ pc = "failed" => axn.err # "none" /\ ~instructions.called
  /\ pc = "returned"
     => /\ axn.err = "none"
        /\ axn.constructed
        /\ si = IF ACTION_SUPPORT_REQUIREMENTS[entry] = <<>>
                THEN 1 ELSE Len(ACTION_SUPPORT_REQUIREMENTS[entry])
        /\ Len(Bucket(axn, "lendingIxs")) = 1

\* A build call that failed after support resolution had appended to a bucket.
C9_Witness ==
  /\ pc = "failed"
  /\ axn.constructed
  /\ axn.err = "TypeError"
  /\ ~NoBucketTouched(axn)

\* C10: an evaluation that finds borrowedValue <= unhealthyBorrowValue, equality
\* included, ends the work on the obligation: the engine goes to the next
\* obligation with no wallet balance read and no liquidation submitted.
C10_HealthyLeftAlone ==
  [][(/\ lpc = "evaluate"
      /\ obligation.present
      /\ Sum(obligation.borrows) * tokensOracle <= Sum(obligation.deposits))
     => /\ lpc' = "obligation"
        /\ oi' = oi + 1
        /\ UNCHANGED <<balanceReads, submissions, chainObligations>>]_vars

\* An obligation exactly at its threshold has been left as healthy.
C10_Witness ==
  /\ lpc = "obligation"
  /\ outcome = "healthy"
  /\ obligation.present
  /\ Sum(obligation.deposits) > 0
  /\ Sum(obligation.borrows) * tokensOracle = Sum(obligation.deposits)
  /\ balanceReads = 0
  /\ submissions = 0

\* C11: the pair the engine goes on to submit for an unhealthy obligation with
\* deposits and borrows is a borrow of the greatest market value among its
\* borrows and the first, in list order, of the deposits of the greatest market
\* value.
C11_PairSelection ==
  lpc \in {"balance", "submit"}
  => LET bs == obligation.borrows
         ds == obligation.deposits
     IN /\ selected.borrow \in 1 .. Len(bs)
        /\ \A j \in 1 .. Len(bs) :
             bs[j] * tokensOracle <= bs[selected.borrow] * tokensOracle
        /\ selected.deposit \in 1 .. Len(ds)
        /\ \A j \in 1 .. Len(ds) : ds[j] <= ds[selected.deposit]
        /\ \A j \in 1 .. (selected.deposit - 1) : ds[j] < ds[selected.deposit]

\* About to submit for deposits worth [1, 5, 5] and borrows of [3, 8]: the
\* second deposit and the second borrow.
C11_Witness ==
  /\ lpc = "submit"
  /\ obligation.deposits = <<1, 5, 5>>
  /\ obligation.borrows = <<3, 8>>
  /\ selected = [borrow |-> 2, deposit |-> 2]

\* The engine is inside `while (obligation)` for obligation oi of market mi.
InWhile == lpc \in {"evaluate", "balance", "submit", "refetch"}

\* C12: with every successful liquidation lowering the obligation's debt, the
\* while loop makes no more iterations than the debt it started from allows,
\* and it goes past an evaluation only when that evaluation found
\* borrowedValue > unhealthyBorrowValue: the first healthy evaluation ends it.
C12_LoopTerminates ==
  /\ InWhile
     => submissions + Sum(chainObligations[mi][oi].borrows)
          <= Sum(allObligations[oi].borrows)
  /\ lpc \in {"balance", "submit", "refetch"}
     => Sum(obligation.borrows) * tokensOracle > Sum(obligation.deposits)

\* The loop has ended on a healthy evaluation after two liquidations.
C12_Witness ==
  /\ lpc = "obligation"
  /\ outcome = "healthy"
  /\ submissions >= 2

\* C13: whatever ends the work on an obligation, an error included, the engine
\* goes on to the next obligation of the same market scan, and every listed
\* obligation it comes to is evaluated: no error of the per-obligation scope
\* ends the scan or runLiquidator.
C13_ErrorIsolation ==
  [][/\ (InWhile /\ lpc' \notin {"evaluate", "balance", "submit", "refetch"})
        => /\ lpc' = "obligation"
           /\ oi' = oi + 1
           /\ UNCHANGED <<epoch, mi, allObligations>>
     /\ (lpc = "obligation" /\ oi <= Len(allObligations))
        => /\ lpc' = "evaluate"
           /\ obligation' = allObligations[oi]]_vars

\* An error has ended the work on an obligation that is not the last of its
\* market's list.
C13_Witness ==
  /\ lpc = "obligation"
  /\ outcome = "error"
  /\ oi <= Len(allObligations)

\* The steps of the while loop for one obligation, the reasons in `reasons`
\* being those for leaving it without an error: a submission that returns is
\* followed by the reload of the same obligation and its evaluation, and the
\* obligation is left only from an evaluation that finds it healthy or selects
\* no pair, from a balance read that is not positive, on an error, or for a
\* reason in `reasons`.
LoopDiscipline(reasons) ==
  /\ lpc = "submit" => (lpc' = "refetch" /\ oi' = oi) \/ outcome' = "error"
  /\ lpc = "refetch"
     => \/ /\ lpc' = "evaluate"
           /\ oi' = oi
           /\ \/ obligation' = chainObligations[mi][oi]
              \/ ("null" \in reasons /\ ~obligation'.present)
        \/ outcome' = "error"
  /\ (InWhile /\ lpc' = "obligation")
     => /\ oi' = oi + 1
        /\ outcome' \in {"healthy", "noSelection", "zeroBalance", "noBalance",
                         "error"} \cup reasons
        /\ outcome' \in {"healthy", "noSelection"}
           => /\ lpc = "evaluate"
              /\ obligation.present
        /\ outcome' = "healthy"
           => Sum(obligation.borrows) * tokensOracle <= Sum(obligation.deposits)
        /\ outcome' = "noSelection"
           => obligation.borrows = <<>> \/ obligation.deposits = <<>>
        /\ outcome' \in {"zeroBalance", "noBalance"} => lpc = "balance"

\* C14, as amended: after a liquidation submission that returns, the engine
\* reloads that obligation from chain before touching any other, and evaluates
\* it again unless the reloaded account decodes to no obligation; it leaves the
\* obligation only on a healthy evaluation, when no pair is selected or the
\* balance is not positive, on an error, or when the reload yields no
\* obligation.
C14_ReloadAndReevaluate == [][LoopDiscipline({"null"})]_vars

\* The obligation reloaded after a liquidation is being evaluated again.
C14_Witness ==
  /\ lpc = "evaluate"
  /\ submissions >= 1
  /\ obligation = chainObligations[mi][oi]
  /\ obligation # allObligations[oi]

\* C14 as stated: the obligation is left only on a healthy evaluation, when
\* liquidation is infeasible, or on an error, and every reload is followed by
\* an evaluation.
C14_OnlyThreeExits == [][LoopDiscipline({})]_vars

\* C15: the amount every liquidateAndRedeem call is made with is the maximum
\* sentinel U64_MAX, whatever the wallet balance read before it.
C15_SentinelAmount ==
  liquidityAmount # NoAmount => liquidityAmount = U64_MAX

\* C16: a liquidation is submitted only straight after a wallet balance read of
\* the same iteration that was strictly positive; a read of zero or of a
\* negative balance ends the work on the obligation with no submission and with
\* no error.
C16_PositiveBalanceOnly ==
  [][/\ submissions' # submissions /\ submissions' # 0
        => /\ lpc = "submit"
           /\ balanceBase > 0
           /\ balanceReads = submissions + 1
     /\ (lpc = "balance" /\ lpc' = "submit")
        => /\ balanceBase' > 0
           /\ balanceReads' = balanceReads + 1
     /\ (lpc = "balance" /\ balanceReads' # balanceReads /\ outcome' # "error"
         /\ balanceBase' <= 0)
        => /\ lpc' = "obligation"
           /\ oi' = oi + 1
           /\ outcome' \in {"zeroBalance", "noBalance"}
           /\ submissions' = submissions]_vars

\* An unreadable balance has ended the work on an obligation that had been
\* liquidated once already.
C16_Witness ==
  /\ lpc = "obligation"
  /\ outcome = "noBalance"
  /\ balanceBase < 0
  /\ balanceReads = 2
  /\ submissions = 1

\* C17: every health evaluation uses oracle prices and reserve snapshots fetched
\* for that evaluation: none is made with the prices of a market-level fetch
\* that a landed liquidation has followed.
C17_FreshSnapshotPerEvaluation ==
  lpc = "evaluate" => ~submittedSinceFetch

\* C18: the outer scan runs for ever: no failure met while scanning, a failure
\* of the market-level fetch of oracle data, obligations or reserves included,
\* ends the epoch loop.
C18_NoFailureEndsScan ==
  lpc # "crashed"

\* C19: every plan object made by initialize owns the five buckets setupIxs,
\* preIxs, lendingIxs, postIxs and cleanupIxs, so that no append made by
\* support resolution meets a bucket that does not exist.
C19_FiveBucketsOwned ==
  axn.constructed => /\ BucketNames \subseteq DOMAIN axn.buckets
                     /\ axn.err # "TypeError"

\* C20: resolving createObligation adds nothing when the obligation account was
\* found at initialisation; otherwise it appends to setupIxs two instructions,
\* the seeded creation of the obligation account and then initObligation, and
\* touches no other bucket.
C20_CreateObligation ==
  (Len(calls) = 1 /\ calls[1].method = "addObligationIxs")
  => /\ calls[1].err = "none"
     /\ \A b \in BucketNames \ {"setupIxs"} : Bucket(axn, b) = <<>>
     /\ IF axn.obligationAccountInfo
        THEN Bucket(axn, "setupIxs") = <<>>
        ELSE /\ Len(Bucket(axn, "setupIxs")) = 2
             /\ Bucket(axn, "setupIxs")[1].ix = "createAccountWithSeed"
             /\ Bucket(axn, "setupIxs")[1].creates = "obligation"
             /\ Bucket(axn, "setupIxs")[2].ix = "initObligation"

\* The kinds of the instructions held by bucket b of the plan.
Kinds(a, b) == {Bucket(a, b)[i].ix : i \in 1 .. Len(Bucket(a, b))}

\* C21: the ata and cAta creation instructions and the wsol funding and closing
\* instructions go to preIxs (and postIxs, the bucket unwrap uses) exactly when
\* the obligation is at the position limit, a host referral account is set and
\* no lookup table is supplied; otherwise they go to setupIxs (and cleanupIxs).
C21_BucketRouting ==
  (/\ Len(calls) = 1
   /\ calls[1].method \in {"addAtaIxs", "addCAtaIxs", "updateWSOLAccount"}
   /\ calls[1].err \in {"none", "TypeError"})
  => LET closes == /\ calls[1].method = "updateWSOLAccount"
                   /\ axn.reserve \in NativeReserves
                   /\ ~(chain.userTokenAccountInfo /\ sendAction(calls[1].action))
         front == IF PreBucketException(axn) THEN "preIxs" ELSE "setupIxs"
         back == IF PreBucketException(axn) THEN "postIxs" ELSE "cleanupIxs"
     IN /\ calls[1].err = "none"
        /\ \A b \in BucketNames \ {front, back} : Bucket(axn, b) = <<>>
        /\ Kinds(axn, front) \subseteq
             {"createAssociatedTokenAccount", "transfer", "syncNative"}
        /\ Kinds(axn, back) = IF closes THEN {"closeAccount"} ELSE {}

\* The refresh-reserve instructions of setupIxs, in order.
RefreshedReserves(a) ==
  LET IsRefresh(x) == x.ix = "refreshReserve"
      rr == SelectSeq(Bucket(a, "setupIxs"), IsRefresh)
  IN [i \in 1 .. Len(rr) |-> rr[i].reserves[1]]

\* C22: resolving refreshReserves appends to setupIxs one refresh-reserve
\* instruction for each distinct reserve among the obligation's deposits, its
\* borrows and the action's target reserve: none twice, none left out.
C22_RefreshReserves ==
  (Len(calls) = 1 /\ calls[1].method = "addRefreshReservesIxs")
  => LET union == Range(axn.depositReserves) \cup Range(axn.borrowReserves)
                    \cup {axn.reserve}
     IN /\ calls[1].err = "none"
        /\ Range(RefreshedReserves(axn)) = union
        /\ Len(RefreshedReserves(axn)) = Cardinality(union)

HasSupport(action, support) ==
  \E i \in 1 .. Len(ACTION_SUPPORT_REQUIREMENTS[action]) :
    ACTION_SUPPORT_REQUIREMENTS[action][i] = support

\* C23: for every action type whose capability list holds refreshObligation,
\* setupIxs holds exactly one refresh-obligation instruction, it names the
\* obligation's full deposit and borrow reserve lists, and it comes after every
\* refresh-reserve instruction of setupIxs.
C23_RefreshObligation ==
  (/\ Len(calls) = 1
   /\ calls[1].method = "addSupportIxs"
   /\ HasSupport(calls[1].action, "refreshObligation")
   /\ calls[1].err \in {"none", "TypeError"})
  => LET setup == Bucket(axn, "setupIxs")
         at == {i \in 1 .. Len(setup) : setup[i].ix = "refreshObligation"}
     IN /\ calls[1].err = "none"
        /\ Cardinality(at) = 1
        /\ \A i \in at :
             /\ setup[i].reserves = axn.depositReserves
             /\ setup[i].borrows = axn.borrowReserves
             /\ \A j \in 1 .. Len(setup) :
                  setup[j].ix = "refreshReserve" => j < i

\* The amounts of the transfer instructions held by the plan's buckets.
TransferAmounts(a) ==
  {Concatenation(a)[i].amount :
     i \in {j \in 1 .. Len(Concatenation(a)) : Concatenation(a)[j].ix = "transfer"}}

C25_CloseOnlyWhenDraining ==
  (/\ Len(calls) = 1
   /\ calls[1].method = "updateWSOLAccount"
   /\ axn.reserve \in NativeReserves
   /\ calls[1].err \in {"none", "TypeError"})
  => /\ WsolPostIxs(chain, calls[1].action) # <<>> <=> ~sendAction(calls[1].action)
     /\ "closeAccount" \in Kinds(axn, "postIxs") \cup Kinds(axn, "cleanupIxs")
          <=> ~sendAction(calls[1].action)

\* C26: for a repay of the native-mint reserve built with the sentinel amount,
\* the lamports funded into the WSOL account never come from the sentinel:
\* whether the obligation account and the borrow exist or not, the re-derived
\* debt plus padding is used or the call fails with an error of its own.
C26_SentinelNeverFunded ==
  (/\ Len(calls) = 1
   /\ calls[1].method = "updateWSOLAccount"
   /\ calls[1].action = "repay"
   /\ axn.reserve \in NativeReserves
   /\ IsMax(axn.amount))
  => \/ calls[1].err \in {"ReserveFetch", "ReserveParse", "BorrowNotFound"}
     \/ /\ axn.safeRepay =
             SafeRepayOf(chain.borrowedAmountWads, chain.snapshotRate,
                         chain.reserveRate)
        /\ \A l \in TransferAmounts(axn) \cup {axn.lamports} :
             l \in {axn.safeRepay, RentExempt + axn.safeRepay}

\* C27: on a plan initialised without a repay reserve, addLiquidateIx raises an
\* error and appends nothing to lendingIxs, and the liquidate fails before
\* support resolution has appended any instruction to any bucket.
C27_LiquidateFailsFast ==
  (Len(calls) = 1 /\ ~axn.userRepayTokenAccountAddress)
  => /\ calls[1].method = "addLiquidateIx"
          => /\ calls[1].err = "NotInitializedWithRepayReserve"
             /\ Bucket(axn, "lendingIxs") = <<>>
     /\ (calls[1].method = "addSupportIxs" /\ calls[1].action = "liquidate")
          => NoBucketTouched(axn)

\* C28: buildForgiveTxns never branches on the amount sentinel: for every
\* amount, U64_MAX included, the plan it returns holds the forgive-debt
\* instruction with that literal amount as its one lending instruction, and
\* nothing in setup, pre, post or cleanup.
C28_ForgiveLiteral ==
  (pc = "returned" /\ entry = "forgive")
  => /\ Len(Bucket(axn, "lendingIxs")) = 1
     /\ Bucket(axn, "lendingIxs")[1].ix = "forgiveDebt"
     /\ Bucket(axn, "lendingIxs")[1].amount = args.amount
     /\ \A b \in BucketNames \ {"lendingIxs"} : Bucket(axn, b) = <<>>

\* A forgive plan built with the sentinel amount has been returned.
C28_Witness ==
  /\ pc = "returned"
  /\ entry = "forgive"
  /\ args.amount = U64_MAX
  /\ Len(Bucket(axn, "lendingIxs")) = 1

\* C29: in the oracle refresh a push-oracle feed is queued for a price update
\* exactly when its last publish time is more than 30 seconds before now (a
\* feed 30 seconds old or younger is not), and when no feed is queued the call
\* ends without building update transactions.
C29_StalenessThreshold ==
  \A i \in 1 .. Len(calls) :
    (i = Len(calls) /\ calls[i].method = "buildPullPriceTxns")
    => /\ axn.shuffledPriceIds \in {0, 1}
       /\ axn.shuffledPriceIds = 1
            <=> /\ chain.pythOracle.found
                /\ chain.pythOracle.publishAge > StalenessSeconds
       /\ axn.shuffledPriceIds = 0 => calls[i].err = "none"

\* A feed exactly 30 seconds old was read, and nothing was queued.
C29_Witness ==
  /\ Len(calls) = 1
  /\ calls[1].method = "buildPullPriceTxns"
  /\ chain.pythOracle.found
  /\ chain.pythOracle.publishAge = StalenessSeconds
  /\ axn.shuffledPriceIds = 0
  /\ calls[1].err = "none"

\* C30: if a required oracle account read answers no account, the oracle
\* refresh fails with an error; a missing oracle account is never skipped.
C30_MissingOracleIsFatal ==
  \A i \in 1 .. Len(calls) :
    (/\ i = Len(calls)
     /\ calls[i].method = "buildPullPriceTxns"
     /\ ~chain.pythOracle.found)
    => calls[i].err = "OracleDataNotFound"

\* C31: an unhealthy obligation whose borrow list or deposit list is empty is
\* left for the current pass with no error, no wallet balance read and no
\* submission, and the engine goes to the next obligation.
C31_NoSelectionAbandons ==
  [][(/\ lpc = "evaluate"
      /\ obligation.present
      /\ ~IsHealthy(calculateRefreshedObligation(obligation, tokensOracle))
      /\ (obligation.borrows = <<>> \/ obligation.deposits = <<>>)
      /\ outcome' # "error")
     => /\ outcome' = "noSelection"
        /\ lpc' = "obligation"
        /\ oi' = oi + 1
        /\ balanceReads' = balanceReads
        /\ submissions' = submissions
        /\ liquidityAmount' = liquidityAmount]_vars

\* An unhealthy obligation with nothing to seize has been left, untouched.
C31_Witness ==
  /\ lpc = "obligation"
  /\ outcome = "noSelection"
  /\ obligation.deposits = <<>>
  /\ obligation.borrows # <<>>
  /\ balanceReads = 0
  /\ submissions = 0

\* C32: an action that opens no new position is never rejected by the position
\* limit check: on an obligation holding exactly POSITION_LIMIT distinct
\* reserves, a repay, withdraw, withdrawCollateral, redeem, liquidate or
\* forgive built on a reserve the obligation already holds passes initialize.
C32_NoNewPositionPasses ==
  (/\ entry \in {"repay", "withdraw", "withdrawCollateral", "redeem",
                  "liquidate", "forgive"}
   /\ Cardinality(Held) = POSITION_LIMIT
   /\ args.reserve \in Held)
  => axn.err # "PositionLimit"

\* The lending instructions of each action type.
OwnInstructions(e) ==
  CASE e = "forgive" -> {"forgiveDebt"}
    [] e = "deposit" -> {"depositMaxReserveLiquidityAndObligationCollateral",
                         "depositReserveLiquidityAndObligationCollateral"}
    [] e = "borrow" -> {"borrowObligationLiquidity"}
    [] e = "mint" -> {"depositReserveLiquidity"}
    [] e = "redeem" -> {"redeemReserveCollateral"}
    [] e = "depositCollateral" -> {"depositObligationCollateral"}
    [] e = "withdrawCollateral" -> {"withdrawObligationCollateral"}
    [] e = "withdraw" -> {"withdrawObligationCollateralAndRedeemReserveLiquidity",
                          "withdrawExact"}
    [] e = "repay" -> {"repayMaxObligationLiquidity", "repayObligationLiquidity"}
    [] e = "liquidate" -> {"liquidateObligationAndRedeemReserveCollateral"}

\* C33: the add*Ix call of each build entry point appends the lending
\* instruction of its own action type (buildWithdrawCollateralTxns the
\* withdraw-obligation-collateral instruction), and every add*Ix method of the
\* class is called by some build entry point.
C33_OwnLendingInstruction ==
  (axn.constructed /\ entry \in ActionTypes)
  => /\ LET a == LendingIx(entry, [axn EXCEPT !.err = "none",
                                             !.buckets.lendingIxs = <<>>])
        IN a.err = "none"
           => Kinds(a, "lendingIxs") \subseteq OwnInstructions(entry)
     /\ \A method \in AddIxMethods :
          \E e \in ActionTypes : LendingMethod(e) = method

\* What getTokenOracleData's price handling owes reserve i: 0 when the owner
\* is neither Switchboard program or the decoded value is missing or zero.
Unresolvable(acc) ==
  \/ acc.owner \notin {"SWITCHBOARD_V1", "SWITCHBOARD_V2"}
  \/ acc.decoded \in {NoPrice, 0}

\* C34: for every interleaving of the per-reserve getTokenOracleData tasks at
\* their await points, SwitchboardProgram.loadMainnet is called at most one
\* time and all tasks that decode a Switchboard V2 aggregator decode with the
\* same handle.
C34_LoadedAtMostOnce ==
  /\ loadMainnetCalls <= 1
  /\ \A i, j \in DOMAIN tasks :
       (/\ tasks[i].pc = "returned" /\ tasks[j].pc = "returned"
        /\ marketReserves[i].owner = "SWITCHBOARD_V2"
        /\ marketReserves[j].owner = "SWITCHBOARD_V2")
       => tasks[i].handle = tasks[j].handle

\* C35: an unresolvable price is never an error.  A getTokenOracleData call
\* whose account read resolved returns an entry whose price is exactly 0 when
\* the owner is neither Switchboard V1 nor V2 or the decoded price is missing
\* or zero, and the decoded price otherwise; the only rejections are those of
\* the account read and of the program load; and what getTokensOracleData
\* resolves to has one entry per reserve of the market, in reserve order.
C35_UnresolvablePriceIsZero ==
  /\ \A i \in DOMAIN tasks :
       LET acc == marketReserves[i] IN
       /\ tasks[i].pc = "returned" =>
            tasks[i].price = IF Unresolvable(acc) THEN 0 ELSE acc.decoded
       /\ tasks[i].pc = "rejected" =>
            \/ acc.read = "rejects"
            \/ acc.owner = "SWITCHBOARD_V2" /\ ~loaderUp
  /\ opc = "rejected" =>
       \/ \E i \in DOMAIN marketReserves : marketReserves[i].read = "rejects"
       \/ ~loaderUp
  /\ opc = "resolved" =>
       /\ DOMAIN oracleResult = DOMAIN marketReserves
       /\ \A i \in DOMAIN oracleResult :
            /\ oracleResult[i].reserve = i
            /\ oracleResult[i].price =
                 IF Unresolvable(marketReserves[i]) THEN 0
                 ELSE marketReserves[i].decoded

\* getTokensOracleData resolved for a market of two reserves, one with an
\* unrecognised owner and one whose Switchboard V1 aggregator decodes to
\* nothing: both entries carry price 0.
C35_Witness ==
  /\ opc = "resolved"
  /\ Len(marketReserves) = 2
  /\ marketReserves[1].owner = "other"
  /\ marketReserves[2].owner = "SWITCHBOARD_V1"
  /\ marketReserves[2].decoded = NoPrice
  /\ Len(oracleResult) = 2
  /\ oracleResult[1].price = 0
  /\ oracleResult[2].price = 0

====
